---- MODULE Spec2Model ----
(***************************************************************************)
(* Orchestration engine of tinder-swipe: the per-task state machine        *)
(* (PENDING .. COMPLETE), the singleton `swipe` Linode instance, the four  *)
(* periodic drivers of Orchestrator, the detached provisioning routine,    *)
(* the HTTP task action and the emergency destroy.                         *)
(*                                                                         *)
(* The process is single-threaded asyncio: code between two awaits runs    *)
(* atomically, and every await is a point where another coroutine runs.    *)
(* An action below is the code between awaits of one coroutine; where the  *)
(* awaits of one handler commute with every other actor they are merged.   *)
(*                                                                         *)
(* ORM sessions are modelled as the code uses them: a SELECT loads rows    *)
(* into the session, attribute writes stay in the session, commit() emits  *)
(* UPDATE ... WHERE id = ? for the changed columns only.                   *)
(*                                                                         *)
(* The Linode row carries the socks5_* columns the orchestrator reads and  *)
(* writes (orchestrator.py:115-124, 246-254, 720-726).                     *)
(***************************************************************************)
EXTENDS Integers, Sequences, FiniteSets, TLC

\* ------------------------------------------------------------------ bounds

MaxTasks == 2
MaxLinodeId == 2
MaxRoutines == 2
MaxRequests == 2
MaxGid == 2
MaxVideos == 2
MaxEvents == 2
MaxRows == 3
MaxOffline == 2
MaxTelegramId == 2

TaskIds == 1..MaxTasks
Routines == 1..MaxRoutines
Requests == 1..MaxRequests
TelegramIds == 1..MaxTelegramId

\* ------------------------------------------------------------------ values

Null == "NULL"

\* TaskStatus (models/task.py)
PENDING == "PENDING"
CONFIRMED == "CONFIRMED"
PIKPAK_TRANSFERRING == "PIKPAK_TRANSFERRING"
DOWNLOADING == "DOWNLOADING"
COMPLETE == "COMPLETE"
IGNORED == "IGNORED"
ERROR == "ERROR"

TaskStatus == {PENDING, CONFIRMED, PIKPAK_TRANSFERRING, DOWNLOADING, COMPLETE, IGNORED, ERROR}

\* LinodeStatus (models/linode.py)
PROVISIONING == "PROVISIONING"
RUNNING == "RUNNING"
DESTROYING == "DESTROYING"
DESTROYED == "DESTROYED"
ZOMBIE == "ZOMBIE"

SWIPE_INSTANCE_LABEL == "swipe"

\* A source URL is its scheme prefix and the rest.
MagnetUrl == <<"magnet:?", "xt=urn:btih:AAAABBBB">>
ShareUrl == <<"https://mypikpak.com/s/", "ABCDE">>

is_magnet_link(url) == url[1] = "magnet:?"

\* Settings defaults (core/config.py)
settings_socks5_port == 1080
settings_socks5_username == "proxy"
settings_socks5_password == <<"s", "w", "i", "p", "e", "2", "0", "2", "4">>

\* Defaults of instance_data.get(...) in _create_swipe_instance: the dict that
\* LinodeManager.create_instance returns has no socks5_* key.
default_socks5_port == 1080
default_socks5_username == "proxy"
default_socks5_password == <<>>

\* urllib.parse.quote(password, safe=''): unreserved characters stay, every
\* other character becomes its percent escape.
Unreserved == {"s", "w", "i", "p", "e", "2", "0", "4", "_", ".", "-", "~"}
quote(password) == [i \in 1..Len(password) |->
                      IF password[i] \in Unreserved THEN password[i] ELSE <<"%", password[i]>>]

\* The public IPv4 the cloud gives instance id.
IpOf(id) == "203.0.113." \o ToString(id)

\* all-proxy value: "" is the empty tuple.
NoProxy == <<>>
proxy_url(ip_address, port, username, password) ==
  <<"http://", username, quote(password), ip_address, port + 7000>>

\* Error messages stored in Task.error_message (all shorter than 500 chars,
\* so str(e)[:500] keeps them whole).
MsgNoFileId == "PikPak offline download failed: no file_id"
MsgShareEmpty == "share is empty or expired (files empty)"
MsgShareStatus == "share status not OK"
MsgDriveError == "drive call raised"
MsgNoVideos == "no video file found"
MsgAddUriFailed == "aria2 add_uri raised"
MsgNoGids == "no download GID"
MsgAria2Failed == "Aria2 download failed"

\* ------------------------------------------------------------------ state

VARIABLES
  tasks,              \* table tasks: id -> row
  linodes,            \* table linodes: linode_id -> row (linode_id is unique)
  remote,             \* the cloud account: set of instances labelled swipe
  next_linode_id,     \* the id the cloud gives the next created instance
  all_proxy,          \* the daemon's all-proxy option
  downloads,          \* the daemon's downloads: gid -> [task, status]
  instance_creating,  \* Orchestrator._instance_creating
  prov,               \* the _create_swipe_instance coroutines: slot -> locals
  reqs,               \* task_action requests between db.get and db.commit
  pc1, sess1,         \* _process_confirmed_tasks: position, session
  proxy_calls1,       \* set_proxy calls issued by the running Tick-1 scan
  pc2, sess2,         \* _push_ready_transfers: position, session
  pc3, sess3,         \* _monitor_downloads: position, session
  pc4, destroy_id,    \* _check_and_cleanup / _destroy_swipe_instance
  events,             \* requests, restarts, stops, emergency destroys, lost instances
                      \* and exceptions caught by a driver loop so far
  running,            \* Orchestrator._running
  drivers,            \* Orchestrator._tasks: driver -> state of its loop
  offline,            \* the drive: task -> offline tasks and share saves it accepted
  settings,           \* Settings: is LINODE_TOKEN set, are PIKPAK_USERNAME/PASSWORD set
  resumed             \* the tasks that were PIKPAK_TRANSFERRING when the process last started

vars == <<tasks, linodes, remote, next_linode_id, all_proxy, downloads,
          instance_creating, prov, reqs, pc1, sess1, proxy_calls1, pc2, sess2, pc3, sess3,
          pc4, destroy_id, events, running, drivers, settings, offline, resumed>>

cloud == <<remote, next_linode_id>>
daemon == <<all_proxy, downloads>>
routine == <<instance_creating, prov>>
tick1 == <<pc1, sess1, proxy_calls1>>
tick2 == <<pc2, sess2>>
tick3 == <<pc3, sess3>>
tick4 == <<pc4, destroy_id>>
engine == <<running, drivers, settings>>

\* ------------------------------------------------------------------ settings

\* LinodeManager sends `Bearer {token}` (linode_manager.py line 99): without a
\* token every list, get and post is answered 401 and raise_for_status raises,
\* and a delete answers other than 200.
CloudAnswers == settings.linode_token

\* PikPakService logs in with settings.pikpak_username/password
\* (pikpak_service.py lines 37-38): without them every drive call raises.
DriveAnswers == settings.pikpak_credentials

\* ------------------------------------------------------------------ drivers

\* The four driver loops in the order start() creates them (lines 56-61).
Drivers == 1..4

\* `while self._running:` of a driver that start() created and that has not
\* returned.
Alive(d) == running /\ d \in DOMAIN drivers /\ drivers[d] # "done"

\* A loop without its try/except: the exception ends the driver.
LoopDies(ds, d) == [ds EXCEPT ![d] = "done"]

\* `except Exception` of a driver loop (lines 176-177, 518-519): the exception
\* is logged and the loop goes on to its sleep.
LoopCatches(ds, d) == [ds EXCEPT ![d] = "caught"]

\* An exception leaves the tick body of driver d.
Escapes(d) ==
  /\ events < MaxEvents
  /\ events' = events + 1
  /\ drivers' = LoopCatches(drivers, d)
  /\ UNCHANGED <<running, settings>>

\* ------------------------------------------------------------------ rows

\* Task.set_aria2_gids / Task.get_aria2_gids: the column holds the JSON text
\* of the list, or NULL for an empty list.
JsonNull == [null |-> TRUE, list |-> <<>>]
dumps(gids) == [null |-> FALSE, list |-> gids]
set_aria2_gids(gids) == IF gids # <<>> THEN dumps(gids) ELSE JsonNull
get_aria2_gids(col) == IF ~col.null THEN col.list ELSE <<>>

NewTask(chat, msg, url) ==
  [telegram_chat_id |-> chat, telegram_msg_id |-> msg,
   status |-> PENDING, source_url |-> url, pikpak_file_id |-> Null,
   pikpak_file_name |-> Null, aria2_gids |-> JsonNull, error_message |-> Null,
   completed_at |-> Null]

NewLinode(ip, status, port, username, password) ==
  [status |-> status, ip_address |-> ip, socks5_port |-> port,
   socks5_username |-> username, socks5_password |-> password,
   ready_at |-> Null, destroyed_at |-> Null, created_at |-> "fresh",
   total_minutes |-> "0"]

\* A session object: the row as loaded and modified, its changed columns, and
\* the id get_video_files_recursive was called with for it in this scan.
Loaded(row) == [obj |-> row, dirty |-> {}, listed |-> Null]
SetAttrs(o, changes) ==
  [obj |-> [f \in DOMAIN o.obj |-> IF f \in DOMAIN changes THEN changes[f] ELSE o.obj[f]],
   dirty |-> o.dirty \cup DOMAIN changes,
   listed |-> o.listed]

\* commit(): UPDATE the changed columns of the row with that primary key.
Flush(row, o) == [f \in DOMAIN row |-> IF f \in o.dirty THEN o.obj[f] ELSE row[f]]
NoSession == [t \in {} |-> Null]
Commit(sess) ==
  [t \in DOMAIN tasks |-> IF t \in DOMAIN sess THEN Flush(tasks[t], sess[t]) ELSE tasks[t]]
Min(S) == CHOOSE x \in S : \A y \in S : x <= y

ByStatus(s) == {t \in DOMAIN tasks : tasks[t].status = s}
ActiveTasks == ByStatus(CONFIRMED) \cup ByStatus(PIKPAK_TRANSFERRING) \cup ByStatus(DOWNLOADING)
RowsIn(S) == {id \in DOMAIN linodes : linodes[id].status \in S}

\* ------------------------------------------------------------------ HTTP

\* task_action up to `await db.commit()`: db.get, the 404/400 checks, the
\* attribute write kept in the request's session.
NoData == [telegram_chat_id |-> 0, telegram_msg_id |-> 0, source_url |-> <<"", "">>]
NoRequest == [task |-> 0, action |-> "none", data |-> NoData]
task_action_read(r, t, action) ==
  /\ running
  /\ reqs[r] = NoRequest
  /\ \A q \in Requests : q < r => reqs[q] # NoRequest
  /\ events < MaxEvents
  /\ events' = events + 1
  /\ t \in DOMAIN tasks
  /\ tasks[t].status = PENDING
  /\ reqs' = [reqs EXCEPT ![r] = [task |-> t, action |-> action, data |-> NoData]]
  /\ UNCHANGED <<engine, resumed, offline, tasks, linodes, cloud, daemon, routine, tick1, tick2, tick3, tick4>>

\* The status task_action writes for an action.
ActionStatus(action) == IF action = "confirm" THEN CONFIRMED ELSE IGNORED

\* task_action's db.commit(): UPDATE tasks SET status = ? WHERE id = ?.
task_action_commit(r) ==
  /\ reqs[r].action \in {"confirm", "ignore"}
  /\ tasks' = [tasks EXCEPT ![reqs[r].task].status = ActionStatus(reqs[r].action)]
  /\ reqs' = [reqs EXCEPT ![r] = NoRequest]
  /\ UNCHANGED <<events, engine, resumed, offline, linodes, cloud, daemon, routine, tick1, tick2, tick3, tick4>>

\* ------------------------------------------------------------------ cloud

\* LinodeManager.get_instance_by_label(SWIPE_INSTANCE_LABEL): the instances it
\* can return (every instance of `remote` carries the label).
NoInstance == [id |-> 0, status |-> "none", ipv4 |-> Null]
NewRemote(id) == [id |-> id, status |-> "provisioning", ipv4 |-> Null]
RemoteIds == {i.id : i \in remote}

\* The provider finishes booting an instance.
RemoteBoot ==
  /\ \E i \in remote :
       /\ i.status # "running"
       /\ remote' = (remote \ {i}) \cup {[i EXCEPT !.status = "running"]}
  /\ UNCHANGED <<events, engine, resumed, offline, tasks, linodes, next_linode_id, daemon, routine, reqs, tick1, tick2, tick3, tick4>>

\* The provider attaches the public IPv4.
RemoteAssignIp ==
  /\ \E i \in remote :
       /\ i.ipv4 = Null
       /\ remote' = (remote \ {i}) \cup {[i EXCEPT !.ipv4 = IpOf(i.id)]}
  /\ UNCHANGED <<events, engine, resumed, offline, tasks, linodes, next_linode_id, daemon, routine, reqs, tick1, tick2, tick3, tick4>>

\* The instance disappears outside this process (deleted in the provider's
\* console, reclaimed by the provider).
RemoteVanish ==
  /\ events < MaxEvents
  /\ events' = events + 1
  /\ \E i \in remote : remote' = remote \ {i}
  /\ UNCHANGED <<engine, resumed, offline, tasks, linodes, next_linode_id, daemon, routine, reqs, tick1, tick2, tick3, tick4>>

\* What a collector submits: TaskCreate (schemas/__init__.py lines 24-27).
TaskData == [telegram_chat_id : TelegramIds, telegram_msg_id : TelegramIds,
             source_url : {MagnetUrl, ShareUrl}]

\* The rows the select of create_task_internal finds (lines 34-40).
Existing(rows, data) ==
  {t \in DOMAIN rows : /\ rows[t].telegram_chat_id = data.telegram_chat_id
                       /\ rows[t].telegram_msg_id = data.telegram_msg_id
                       /\ rows[t].source_url = data.source_url}

\* A unique index over the three columns of the select.
IndexAllowsTriple(rows, data) == Existing(rows, data) = {}

\* idx_tasks_telegram, unique on (telegram_chat_id, telegram_msg_id)
\* (models/task.py line 76): does the INSERT pass.
IndexAllows(rows, data) ==
  \A t \in DOMAIN rows : \/ rows[t].telegram_chat_id # data.telegram_chat_id
                          \/ rows[t].telegram_msg_id # data.telegram_msg_id

\* The status code of POST /tasks/internal/create (lines 80-93) for what
\* create_task_internal returned: the id of the new task, or 0 for None.
CreateAnswer(task) == IF task = 0 THEN 409 ELSE 200

\* create_task_internal up to db.add (lines 32-63): the select; a row found
\* ends the request with None.
create_task_select(r, data) ==
  /\ running
  /\ reqs[r] = NoRequest
  /\ Cardinality(DOMAIN tasks) < MaxRows
  /\ reqs' = IF Existing(tasks, data) # {}
               THEN reqs
               ELSE [reqs EXCEPT ![r] = [task |-> 0, action |-> "create", data |-> data]]
  /\ UNCHANGED <<events, engine, resumed, offline, tasks, linodes, cloud, daemon, routine, tick1, tick2, tick3, tick4>>

\* What create_task_internal returns after db.commit() (lines 63-70): the new
\* task, or None (0) on IntegrityError.
Created(rows, data) ==
  IF IndexAllows(rows, data) THEN Cardinality(DOMAIN rows) + 1 ELSE 0

\* db.add, db.commit (lines 62-70): the INSERT, rolled back on IntegrityError.
create_task_insert(r) ==
  /\ reqs[r].action = "create"
  /\ LET data == reqs[r].data
         id == Created(tasks, data) IN
     tasks' = IF id # 0
                THEN [t \in DOMAIN tasks \cup {id} |->
                        IF t = id THEN NewTask(data.telegram_chat_id, data.telegram_msg_id,
                                               data.source_url)
                                  ELSE tasks[t]]
                ELSE tasks
  /\ reqs' = [reqs EXCEPT ![r] = NoRequest]
  /\ UNCHANGED <<events, engine, resumed, offline, linodes, cloud, daemon, routine, tick1, tick2, tick3, tick4>>

\* ------------------------------------------------------------------ Tick-1

\* asyncio.create_task(self._create_swipe_instance()): a new coroutine.
IdleRoutines == {r \in Routines : prov[r].pc = "idle"}
IdleRoutine == [pc |-> "idle", linode_id |-> 0, ip_address |-> Null]
Spawn == [prov EXCEPT ![Min(IdleRoutines)] = [IdleRoutine EXCEPT !.pc = "list"]]

\* Tick-1 without the creation-in-flight flag.
MaySpawnUnguarded == TRUE

\* `if not self._instance_creating` (orchestrator.py:201).
MaySpawn == ~instance_creating

\* File names the drive hands out; its file ids are "pre-77" (returned by
\* the transfer) and "post-99" (the restored copy).
FileNames == {"Pack.mkv"}

\* The except branch without `task.status = ERROR`.
TransferFailedNoStatus(msg) == [error_message |-> msg]

\* The magnet branch storing the id before testing it.
TransferMagnetAssignFirst(file_id) ==
  IF file_id = Null
    THEN [pikpak_file_id |-> file_id, status |-> ERROR, error_message |-> MsgNoFileId]
    ELSE [pikpak_file_id |-> file_id, status |-> PIKPAK_TRANSFERRING]

\* The magnet branch without `if not file_id: raise`.
TransferMagnetUnchecked(file_id) == [pikpak_file_id |-> file_id, status |-> PIKPAK_TRANSFERRING]

\* The attribute writes _transfer_to_pikpak and the except branch of
\* _process_confirmed_tasks make for one task, by what the drive answered.
TransferFailed(msg) == [status |-> ERROR, error_message |-> msg]

TransferMagnet(file_id) ==
  IF file_id = Null
    THEN TransferFailed(MsgNoFileId)
    ELSE [pikpak_file_id |-> file_id, status |-> PIKPAK_TRANSFERRING]

\* transfer_share_content raises on an empty `files`; the first member of a
\* non-empty result is stored.
TransferShare(results) ==
  IF results = <<>>
    THEN TransferFailed(MsgShareEmpty)
    ELSE [pikpak_file_id |-> results[1][2], pikpak_file_name |-> results[1][1],
          status |-> PIKPAK_TRANSFERRING]

\* What transfer_share_content can return: (file_name, original_id) pairs.
ShareResults == {<<>>} \cup {<<<<n, f>>>> : n \in FileNames, f \in {"pre-77"}}

\* Every way one iteration of the loop at lines 217-223 can leave a task.
Transferred(o) ==
  {SetAttrs(o, changes) : changes \in
     (IF is_magnet_link(o.obj.source_url)
        THEN {TransferMagnet(f) : f \in {Null, "pre-77"}}
        ELSE {TransferShare(res) : res \in ShareResults} \cup {TransferFailed(MsgShareStatus)})
     \cup {TransferFailed(MsgDriveError)}}

\* _ensure_aria2_proxy_configured: the row it configures the daemon from.
ProxyRow == {id \in RowsIn({RUNNING}) : /\ linodes[id].ip_address # Null
                                        /\ linodes[id].socks5_password # <<>>}

\* The select without its status filter.
ConfirmedTasksUnfiltered == DOMAIN tasks

\* `select(Task).where(Task.status == CONFIRMED)` (lines 184-186).
ConfirmedTasks == ByStatus(CONFIRMED)

\* The drive after a scan's calls: one more offline task or share save for
\* every task whose call it accepted (counted up to MaxOffline).
Accepted(off, sess) ==
  [t \in DOMAIN off |->
     IF t \in DOMAIN sess /\ sess[t].obj.status = PIKPAK_TRANSFERRING /\ off[t] < MaxOffline
       THEN off[t] + 1 ELSE off[t]]

\* _process_confirmed_tasks up to its commit (lines 182-223): select the
\* CONFIRMED tasks, look the instance up by label, spawn the provisioning
\* routine or re-apply the proxy and call the drive for every selected task.
process_confirmed_tasks ==
  /\ Alive(1)
  /\ pc1 = "idle"
  /\ LET confirmed == ConfirmedTasks IN
     \/ /\ confirmed = {}
        /\ UNCHANGED <<events, engine, routine, tick1, tick2, tick3, all_proxy, offline>>
     \/ /\ confirmed # {}
        /\ \/ \* get_instance_by_label raises: the driver logs it
              /\ Escapes(1)
              /\ UNCHANGED <<routine, tick1, tick2, tick3, all_proxy, offline>>
           \/ /\ CloudAnswers
              /\ remote = {}
              /\ IF MaySpawn /\ IdleRoutines # {}
                   THEN instance_creating' = TRUE /\ prov' = Spawn
                   ELSE UNCHANGED routine
              /\ UNCHANGED <<events, engine, tick1, tick2, tick3, all_proxy, offline>>
           \/ \E i \in {j \in remote : CloudAnswers} :
                \/ /\ i.status # "running"
                   /\ UNCHANGED <<events, engine, routine, tick1, tick2, tick3, all_proxy, offline>>
                \/ \* two RUNNING rows: scalar_one_or_none() raises (line 718)
                   /\ i.status = "running"
                   /\ Cardinality(RowsIn({RUNNING})) > 1
                   /\ Escapes(1)
                   /\ UNCHANGED <<routine, tick1, tick2, tick3, all_proxy, offline>>
                \/ /\ i.status = "running"
                   /\ Cardinality(RowsIn({RUNNING})) <= 1
                   /\ IF ProxyRow # {}
                        THEN LET l == linodes[CHOOSE id \in ProxyRow : TRUE] IN
                             /\ proxy_calls1' = 1
                             /\ \/ all_proxy' = proxy_url(l.ip_address, l.socks5_port,
                                                           l.socks5_username, l.socks5_password)
                                \/ \* set_proxy raises: logged (line 707)
                                   UNCHANGED all_proxy
                        ELSE UNCHANGED <<all_proxy, proxy_calls1>>
                   /\ pc1' = "commit"
                   /\ sess1' \in [confirmed -> UNION {Transferred(Loaded(tasks[t])) : t \in confirmed}]
                   /\ \A t \in confirmed :
                        /\ sess1'[t] \in Transferred(Loaded(tasks[t]))
                        /\ DriveAnswers \/ sess1'[t] = SetAttrs(Loaded(tasks[t]),
                                                                TransferFailed(MsgDriveError))
                   /\ offline' = Accepted(offline, sess1')
                   /\ UNCHANGED <<events, engine, routine>>
  /\ UNCHANGED <<resumed, tasks, linodes, cloud, downloads, reqs, tick2, tick3, tick4>>

\* `await db.commit()` at line 225.
process_confirmed_tasks_commit ==
  /\ pc1 = "commit"
  /\ tasks' = Commit(sess1)
  /\ pc1' = "idle" /\ sess1' = NoSession /\ proxy_calls1' = 0
  /\ UNCHANGED <<events, engine, resumed, offline, linodes, cloud, daemon, routine, reqs, tick2, tick3, tick4>>

\* The commit raises: get_db_context rolls back and re-raises
\* (core/database.py lines 50-52), the driver logs it.
process_confirmed_tasks_commit_raises ==
  /\ pc1 = "commit"
  /\ Escapes(1)
  /\ pc1' = "idle" /\ sess1' = NoSession /\ proxy_calls1' = 0
  /\ UNCHANGED <<resumed, offline, tasks, linodes, cloud, daemon, routine, reqs, tick2, tick3, tick4>>

\* ------------------------------------------------------------------ provisioning

\* A coroutine that ends without the `finally` clause.
EndRoutineKeepsFlag(r) ==
  /\ prov' = [prov EXCEPT ![r] = IdleRoutine]
  /\ UNCHANGED instance_creating

\* The `finally` of _create_swipe_instance: the coroutine ends.
EndRoutine(r) ==
  /\ prov' = [prov EXCEPT ![r] = IdleRoutine]
  /\ instance_creating' = FALSE

\* db.add(Linode(..., status=PROVISIONING)); commit. linode_id is unique: a
\* second row with the id raises IntegrityError, caught at line 296.
InsertProvisioning(r, id) ==
  IF id \in DOMAIN linodes
    THEN EndRoutine(r) /\ UNCHANGED linodes
    ELSE /\ linodes' = [i \in DOMAIN linodes \cup {id} |->
                          IF i = id
                            THEN NewLinode(Null, PROVISIONING, default_socks5_port,
                                           default_socks5_username, default_socks5_password)
                            ELSE linodes[i]]
         /\ prov' = [prov EXCEPT ![r] = [pc |-> "wait", linode_id |-> id, ip_address |-> Null]]
         /\ UNCHANGED instance_creating

\* LinodeManager.create_instance, the idempotency check (lines 133-139): list
\* the instances; one with the label is returned and recorded.
create_swipe_instance_list(r) ==
  /\ prov[r].pc = "list"
  /\ \/ \* list_instances raises
        EndRoutine(r) /\ UNCHANGED linodes
     \/ /\ CloudAnswers
        /\ remote = {}
        /\ prov' = [prov EXCEPT ![r].pc = "post"]
        /\ UNCHANGED <<instance_creating, linodes>>
     \/ \E i \in remote : CloudAnswers /\ InsertProvisioning(r, i.id)
  /\ UNCHANGED <<events, engine, resumed, offline, tasks, cloud, daemon, reqs, tick1, tick2, tick3, tick4>>

\* LinodeManager.create_instance, POST /linode/instances (lines 148-171), then
\* the insert of the local row (lines 245-256).
create_swipe_instance_post(r) ==
  /\ prov[r].pc = "post"
  /\ \/ \* the POST is refused or raises
        EndRoutine(r) /\ UNCHANGED <<linodes, cloud>>
     \/ /\ CloudAnswers
        /\ next_linode_id <= MaxLinodeId
        /\ remote' = remote \cup {NewRemote(next_linode_id)}
        /\ next_linode_id' = next_linode_id + 1
        /\ \/ InsertProvisioning(r, next_linode_id)
           \/ \* the insert's commit raises: caught at line 296
              EndRoutine(r) /\ UNCHANGED linodes
  /\ UNCHANGED <<events, engine, resumed, offline, tasks, daemon, reqs, tick1, tick2, tick3, tick4>>

\* wait_for_running and the branch on its result (lines 261-294).
create_swipe_instance_wait(r) ==
  /\ prov[r].pc = "wait"
  /\ LET id == prov[r].linode_id IN
     \/ \* get_instance raises (404 after the instance went away, transport)
        EndRoutine(r) /\ UNCHANGED linodes
     \/ \E i \in remote :
          /\ i.id = id /\ i.status = "running" /\ i.ipv4 # Null
          /\ linodes' = [linodes EXCEPT ![id].ip_address = i.ipv4,
                                         ![id].status = RUNNING,
                                         ![id].ready_at = "set"]
          /\ prov' = [prov EXCEPT ![r].pc = "sleep", ![r].ip_address = i.ipv4]
          /\ UNCHANGED instance_creating
     \/ \* 300 s elapsed: wait_for_running returns None
        /\ linodes' = [linodes EXCEPT ![id].status = ZOMBIE]
        /\ EndRoutine(r)
  /\ UNCHANGED <<events, engine, resumed, offline, tasks, cloud, daemon, reqs, tick1, tick2, tick3, tick4>>

\* After asyncio.sleep(30): _configure_aria2_proxy with the routine's locals.
create_swipe_instance_configure(r) ==
  /\ prov[r].pc = "sleep"
  /\ \/ all_proxy' = proxy_url(prov[r].ip_address, default_socks5_port,
                                default_socks5_username, default_socks5_password)
     \/ \* set_proxy raises: logged
        UNCHANGED all_proxy
  /\ EndRoutine(r)
  /\ UNCHANGED <<events, engine, resumed, offline, tasks, linodes, cloud, downloads, reqs, tick1, tick2, tick3, tick4>>

\* ------------------------------------------------------------------ Tick-2

\* aria2 addUri: a new download, its gid the next free one.
AddUris(dls, t, n) == [g \in 1..(Len(dls) + n) |->
                        IF g <= Len(dls) THEN dls[g] ELSE [task |-> t, status |-> "active"]]
NewGids(dls, n) == [k \in 1..n |-> Len(dls) + k]

\* The id the readiness probe reports for a ready file: the stored one, or the
\* one found by name in "Pack From Shared" when a name is stored.
ActualIds(row) ==
  {row.pikpak_file_id} \cup (IF row.pikpak_file_name # Null THEN {"post-99"} ELSE {})

\* `if actual_file_id and actual_file_id != task.pikpak_file_id` (line 385).
RewriteId(o, actual) ==
  IF actual # Null /\ actual # o.obj.pikpak_file_id
    THEN SetAttrs(o, [pikpak_file_id |-> actual])
    ELSE o

\* _push_to_aria2 line 413: get_video_files_recursive(task.pikpak_file_id),
\* called with the id the task holds at that moment.
Listing(o) == [o EXCEPT !.listed = o.obj.pikpak_file_id]

\* The listing called before the id is rewritten.
ListThenProbe(o, actual) == RewriteId(Listing(o), actual)

\* Lines 385-393 for a ready file: rewrite the id, then _push_to_aria2 lists.
ProbeThenList(o, actual) == Listing(RewriteId(o, actual))

\* The except branch at lines 395-398 and the no-video return of _push_to_aria2.
Failed(o, msg) == SetAttrs(o, [status |-> ERROR, error_message |-> msg])

\* _push_to_aria2 without `task.set_aria2_gids(gids)`.
PushedUnsaved(o, gids) == SetAttrs(o, [status |-> DOWNLOADING])

\* _push_to_aria2 after every add_uri returned (lines 436-438).
Pushed(o, gids) == SetAttrs(o, [aria2_gids |-> set_aria2_gids(gids), status |-> DOWNLOADING])

\* A task whose file is not ready failed instead of skipped.
NotReadyFails(o) == SetAttrs(o, [status |-> ERROR, error_message |-> MsgDriveError])

\* `if not is_ready: continue` (lines 380-382).
NotReady(o) == o

\* Every way one iteration of the loop at lines 368-398 can end, as
\* <<the daemon's downloads, the task's session object>>; `is_ready` is the
\* answer of the readiness probe.
PushOne(dls, t, o, is_ready) ==
  IF o.obj.pikpak_file_id = Null THEN {<<dls, o>>}  \* no pikpak_file_id: continue
  ELSE IF ~is_ready THEN {<<dls, NotReady(o)>>}
  ELSE
    (UNION {LET o2 == ProbeThenList(o, actual) IN
            {<<dls, Failed(o2, MsgDriveError)>>,  \* get_video_files_recursive raises
             <<dls, Failed(o2, MsgNoVideos)>>}    \* no video below the root
            \cup {<<AddUris(dls, t, n), Pushed(o2, NewGids(dls, n))>> :
                    n \in {m \in 1..MaxVideos : Len(dls) + m <= MaxGid}}
            \* the (k+1)-th add_uri raises: the gids so far are dropped
            \cup {<<AddUris(dls, t, k), Failed(o2, MsgAddUriFailed)>> :
                    k \in {m \in 0..(MaxVideos - 1) : Len(dls) + m <= MaxGid}}
           : actual \in ActualIds(o.obj)})

\* The loop over the selected tasks in id order: every <<downloads, session>>
\* the scan can end with.
RECURSIVE PushAll(_, _, _, _)
PushAll(todo, dls, sess, ready) ==
  IF todo = {} THEN {<<dls, sess>>}
  ELSE LET t == Min(todo) IN
       UNION {PushAll(todo \ {t}, res[1],
                      [u \in DOMAIN sess |-> IF u = t THEN res[2] ELSE sess[u]], ready) :
                res \in PushOne(dls, t, sess[t], t \in ready)}

\* _push_ready_transfers up to its commit (lines 353-398): select the
\* PIKPAK_TRANSFERRING tasks, probe the drive and hand the ready ones to the
\* daemon. `ready` are the tasks whose file is_file_ready reports ready.
push_ready_transfers_answers(ready) ==
  /\ Alive(2)
  /\ pc2 = "idle"
  /\ LET transferring == ByStatus(PIKPAK_TRANSFERRING) IN
     /\ transferring # {}
     /\ \E res \in PushAll(transferring, downloads,
                            [t \in transferring |-> Loaded(tasks[t])], ready) :
          /\ downloads' = res[1]
          /\ sess2' = res[2]
     /\ pc2' = "commit"
  /\ UNCHANGED <<events, engine, resumed, offline, tasks, linodes, cloud, all_proxy, routine, reqs, tick1, tick3, tick4>>

push_ready_transfers ==
  \E ready \in SUBSET ByStatus(PIKPAK_TRANSFERRING) : push_ready_transfers_answers(ready)

\* `await db.commit()` at line 400.
push_ready_transfers_commit ==
  /\ pc2 = "commit"
  /\ tasks' = Commit(sess2)
  /\ pc2' = "idle" /\ sess2' = NoSession
  /\ UNCHANGED <<events, engine, resumed, offline, linodes, cloud, daemon, routine, reqs, tick1, tick3, tick4>>

\* The commit raises: rolled back, logged by the driver.
push_ready_transfers_commit_raises ==
  /\ pc2 = "commit"
  /\ Escapes(2)
  /\ pc2' = "idle" /\ sess2' = NoSession
  /\ UNCHANGED <<resumed, offline, tasks, linodes, cloud, daemon, routine, reqs, tick1, tick3, tick4>>

\* ------------------------------------------------------------------ Tick-3

\* The gids the scan asks the daemon about: those of the DOWNLOADING tasks.
Probed == UNION {{g \in 1..Len(downloads) :
                   \E i \in DOMAIN get_aria2_gids(tasks[t].aria2_gids) :
                     get_aria2_gids(tasks[t].aria2_gids)[i] = g} : t \in ByStatus(DOWNLOADING)}

\* The loop over one task's gids with a raising tell_status taken as a
\* finished download.
MonitoredThrownAsComplete(o, thrown) ==
  LET gids == get_aria2_gids(o.obj.aria2_gids)
      probed == {i \in 1..Len(gids) : gids[i] \notin thrown}
      has_error == \E i \in probed : downloads[gids[i]].status = "error"
      all_complete == \A i \in probed : downloads[gids[i]].status = "complete"
  IN IF gids = <<>> THEN SetAttrs(o, [status |-> ERROR, error_message |-> MsgNoGids])
     ELSE IF has_error THEN SetAttrs(o, [status |-> ERROR, error_message |-> MsgAria2Failed])
     ELSE IF all_complete THEN SetAttrs(o, [status |-> COMPLETE, completed_at |-> "fresh"])
     ELSE o

\* The loop over one task's gids (lines 476-502). `thrown` are the gids whose
\* tell_status raises in this scan.
Monitored(o, thrown) ==
  LET gids == get_aria2_gids(o.obj.aria2_gids)
      probed == {i \in 1..Len(gids) : gids[i] \notin thrown}
      has_error == \E i \in probed : downloads[gids[i]].status = "error"
      all_complete == \A i \in 1..Len(gids) :
                        i \in probed /\ downloads[gids[i]].status = "complete"
  IN IF gids = <<>> THEN SetAttrs(o, [status |-> ERROR, error_message |-> MsgNoGids])
     ELSE IF has_error THEN SetAttrs(o, [status |-> ERROR, error_message |-> MsgAria2Failed])
     ELSE IF all_complete THEN SetAttrs(o, [status |-> COMPLETE, completed_at |-> "fresh"])
     ELSE o

\* _monitor_downloads up to its commit (lines 457-505): select the
\* DOWNLOADING tasks and ask the daemon for the status of every gid.
monitor_downloads_answers(thrown) ==
  /\ Alive(3)
  /\ pc3 = "idle"
  /\ LET downloading == ByStatus(DOWNLOADING) IN
     /\ downloading # {}
     /\ sess3' = [t \in downloading |-> Monitored(Loaded(tasks[t]), thrown)]
     /\ pc3' = "commit"
  /\ UNCHANGED <<events, engine, resumed, offline, tasks, linodes, cloud, daemon, routine, reqs, tick1, tick2, tick4>>

monitor_downloads == \E thrown \in SUBSET Probed : monitor_downloads_answers(thrown)

\* `await db.commit()` at line 507.
monitor_downloads_commit ==
  /\ pc3 = "commit"
  /\ tasks' = Commit(sess3)
  /\ pc3' = "idle" /\ sess3' = NoSession
  /\ UNCHANGED <<events, engine, resumed, offline, linodes, cloud, daemon, routine, reqs, tick1, tick2, tick4>>

\* The commit raises: rolled back, logged by the driver.
monitor_downloads_commit_raises ==
  /\ pc3 = "commit"
  /\ Escapes(3)
  /\ pc3' = "idle" /\ sess3' = NoSession
  /\ UNCHANGED <<resumed, offline, tasks, linodes, cloud, daemon, routine, reqs, tick1, tick2, tick4>>

\* The daemon ends a download. Only the downloads of DOWNLOADING tasks are
\* ever probed, so the end of any other download is not a step.
DownloadEnds ==
  /\ \E g \in Probed, s \in {"complete", "error"} :
       /\ downloads[g].status = "active"
       /\ downloads' = [downloads EXCEPT ![g].status = s]
  /\ UNCHANGED <<events, engine, resumed, offline, tasks, linodes, cloud, all_proxy, routine, reqs, tick1, tick2, tick3, tick4>>

\* A download is removed from the daemon outside this process (aria2.remove
\* from another client): tellStatus then answers "removed".
DownloadRemoved ==
  /\ events < MaxEvents
  /\ events' = events + 1
  /\ \E g \in Probed :
       /\ downloads[g].status = "active"
       /\ downloads' = [downloads EXCEPT ![g].status = "removed"]
  /\ UNCHANGED <<engine, resumed, offline, tasks, linodes, cloud, all_proxy, routine, reqs, tick1, tick2, tick3, tick4>>

\* ------------------------------------------------------------------ Tick-4

\* `last_completed`: is the latest completed_at of a COMPLETE task missing,
\* younger than the 5-minute threshold, or older.
Completed == {t \in ByStatus(COMPLETE) : tasks[t].completed_at # Null}
LastCompleted ==
  IF Completed = {} THEN Null
  ELSE IF \E t \in Completed : tasks[t].completed_at = "fresh" THEN "fresh"
  ELSE "old"

\* _check_and_cleanup without the 5-minute idle window.
CleanupBranchIgnoresWindow ==
  IF ActiveTasks # {} THEN "return"
  ELSE IF LastCompleted = Null THEN "stale" ELSE "destroy"

\* _check_and_cleanup (lines 522-561): does it call _destroy_swipe_instance
\* directly, call _cleanup_stale_instance, or return.
CleanupBranch ==
  IF ActiveTasks # {} THEN "return"
  ELSE CASE LastCompleted = Null -> "stale"
         [] LastCompleted = "fresh" -> "return"
         [] OTHER -> "destroy"

\* _cleanup_stale_instance with the age test inverted.
StaleDestroysInverted ==
  LET live == RowsIn({PROVISIONING, RUNNING}) IN
  /\ remote # {}
  /\ Cardinality(live) = 1
  /\ ActiveTasks = {}
  /\ \A id \in live : linodes[id].created_at = "fresh"

\* _cleanup_stale_instance (lines 563-608): does it call
\* _destroy_swipe_instance. Two live rows make scalar_one_or_none() raise.
StaleDestroys ==
  LET live == RowsIn({PROVISIONING, RUNNING}) IN
  /\ remote # {}
  /\ Cardinality(live) = 1
  /\ ActiveTasks = {}
  /\ \A id \in live : linodes[id].created_at = "old"

\* _check_and_cleanup and _cleanup_stale_instance up to the call of
\* _destroy_swipe_instance.
\* `raised`: the lookup of _cleanup_stale_instance raises and the driver
\* logs it.
check_and_cleanup_answers(raised) ==
  /\ Alive(4)
  /\ pc4 = "idle"
  /\ IF \/ CleanupBranch = "destroy"
        \/ CleanupBranch = "stale" /\ ~raised /\ StaleDestroys
       THEN pc4' = "destroy"
       ELSE UNCHANGED pc4
  /\ (CleanupBranch = "stale" /\ ~raised) => CloudAnswers
  /\ IF CleanupBranch = "stale" /\ raised
       THEN Escapes(4)
       ELSE UNCHANGED <<events, engine>>
  /\ UNCHANGED <<resumed, offline, tasks, linodes, cloud, daemon, routine, reqs, tick1, tick2, tick3, destroy_id>>

check_and_cleanup == \E raised \in BOOLEAN : check_and_cleanup_answers(raised)

\* _destroy_swipe_instance lines 612-633: look the instance up, return when
\* there is none, else mark its row DESTROYING.
destroy_swipe_instance_lookup ==
  /\ pc4 = "destroy"
  /\ \/ \* get_instance_by_label raises: the driver logs it
        /\ Escapes(4)
        /\ pc4' = "idle" /\ UNCHANGED <<linodes, destroy_id>>
     \/ /\ CloudAnswers
        /\ remote = {}
        /\ pc4' = "idle" /\ UNCHANGED <<events, engine, linodes, destroy_id>>
     \/ \E i \in remote :
          /\ CloudAnswers
          /\ pc4' = "delete"
          /\ destroy_id' = i.id
          /\ linodes' = IF i.id \in DOMAIN linodes
                          THEN [linodes EXCEPT ![i.id].status = DESTROYING]
                          ELSE linodes
          /\ UNCHANGED <<events, engine>>
  /\ UNCHANGED <<resumed, offline, tasks, cloud, daemon, routine, reqs, tick1, tick2, tick3>>

\* The success branch without the computation of total_minutes.
DestroyedMinutesKept(row, success) ==
  IF success THEN [row EXCEPT !.status = DESTROYED, !.destroyed_at = "set"]
  ELSE [row EXCEPT !.status = ZOMBIE]

\* The row after delete_instance returned `success` (lines 638-659);
\* total_minutes is computed only `if linode.ready_at`.
Destroyed(row, success) ==
  IF success
    THEN [row EXCEPT !.status = DESTROYED, !.destroyed_at = "set",
                     !.total_minutes = IF row.ready_at # Null
                                         THEN "now - ready_at" ELSE @]
    ELSE [row EXCEPT !.status = ZOMBIE]

\* aria2 set_proxy(None) inside try/except: cleared, or the call raised.
ClearProxy == all_proxy' = NoProxy \/ UNCHANGED all_proxy

\* _destroy_swipe_instance lines 636-670: delete, record the result, clear the
\* daemon's proxy.
destroy_swipe_instance_delete ==
  /\ pc4 = "delete"
  /\ pc4' = "idle" /\ destroy_id' = 0
  /\ \/ \* delete_instance raises: the outer except logs it
        UNCHANGED <<linodes, remote, all_proxy>>
     \/ \E success \in BOOLEAN :
          /\ success => (CloudAnswers /\ destroy_id \in RemoteIds)
          /\ remote' = IF success THEN {i \in remote : i.id # destroy_id} ELSE remote
          /\ linodes' = IF destroy_id \in DOMAIN linodes
                          THEN [linodes EXCEPT ![destroy_id] = Destroyed(@, success)]
                          ELSE linodes
          /\ ClearProxy
  /\ UNCHANGED <<events, engine, resumed, offline, tasks, next_linode_id, downloads, routine, reqs, tick1, tick2, tick3>>

\* ------------------------------------------------------------------ operator

\* The UPDATE restricted to RUNNING rows.
EmergencyRowsRunningOnly ==
  [id \in DOMAIN linodes |->
     IF linodes[id].status = RUNNING
       THEN [linodes[id] EXCEPT !.status = DESTROYED, !.destroyed_at = "set"]
       ELSE linodes[id]]

\* emergency_destroy_all lines 743-751: UPDATE linodes SET status = DESTROYED,
\* destroyed_at = now WHERE status != DESTROYED.
EmergencyRows ==
  [id \in DOMAIN linodes |->
     IF linodes[id].status # DESTROYED
       THEN [linodes[id] EXCEPT !.status = DESTROYED, !.destroyed_at = "set"]
       ELSE linodes[id]]

\* emergency_destroy_all (lines 732-763) by what its calls answer: `gone` are
\* the instances whose delete returned 200, `raised` says list_instances or a
\* delete raised (the request fails before the UPDATE), `cleared` says
\* set_proxy(None) was accepted (its failure is swallowed at line 757).
emergency_destroy_all_answers(gone, raised, cleared) ==
  /\ running
  /\ events < MaxEvents
  /\ events' = events + 1
  /\ remote' = remote \ gone
  /\ raised \/ CloudAnswers
  /\ IF raised
       THEN UNCHANGED <<linodes, all_proxy>>
       ELSE /\ linodes' = EmergencyRows
            /\ all_proxy' = IF cleared THEN NoProxy ELSE all_proxy
  /\ UNCHANGED <<engine, resumed, offline, tasks, next_linode_id, downloads, routine, reqs, tick1, tick2, tick3, tick4>>

\* POST /dashboard/emergency-destroy: delete every instance whose label
\* starts with swipe, mark every row DESTROYED, clear the proxy.
emergency_destroy_all ==
  \E gone \in SUBSET remote, raised \in BOOLEAN, cleared \in BOOLEAN :
    emergency_destroy_all_answers(gone, raised, cleared)

\* ------------------------------------------------------------------ startup

\* _sync_instance_status whose update branch leaves the status alone.
sync_instance_status_keeps_status(rows, inst, ip_address) ==
  IF inst = NoInstance
    THEN [id \in DOMAIN rows |->
           IF rows[id].status # DESTROYED
             THEN [rows[id] EXCEPT !.status = DESTROYED, !.destroyed_at = "set"]
             ELSE rows[id]]
  ELSE IF inst.id \notin DOMAIN rows
    THEN [id \in DOMAIN rows \cup {inst.id} |->
           IF id = inst.id
             THEN NewLinode(ip_address,
                            IF inst.status = "running" THEN RUNNING ELSE PROVISIONING,
                            settings_socks5_port, settings_socks5_username,
                            settings_socks5_password)
             ELSE rows[id]]
  ELSE [rows EXCEPT ![inst.id].ip_address = ip_address]

\* _sync_instance_status (lines 82-165) on the rows, for the instance the
\* lookup returned (NoInstance: none) and the address read from it.
sync_instance_status(rows, inst, ip_address) ==
  IF inst = NoInstance
    THEN [id \in DOMAIN rows |->
           IF rows[id].status # DESTROYED
             THEN [rows[id] EXCEPT !.status = DESTROYED, !.destroyed_at = "set"]
             ELSE rows[id]]
  ELSE IF inst.id \notin DOMAIN rows
    THEN [id \in DOMAIN rows \cup {inst.id} |->
           IF id = inst.id
             THEN NewLinode(ip_address,
                            IF inst.status = "running" THEN RUNNING ELSE PROVISIONING,
                            settings_socks5_port, settings_socks5_username,
                            settings_socks5_password)
             ELSE rows[id]]
  ELSE [rows EXCEPT ![inst.id] =
          IF inst.status = "running"
            THEN [@ EXCEPT !.ip_address = ip_address, !.status = RUNNING,
                           !.ready_at = "set"]
            ELSE [@ EXCEPT !.ip_address = ip_address]]

\* The instances get_instance_by_label can return to the startup reconcile.
Lookups == IF remote = {} THEN {NoInstance} ELSE remote

\* The process starts (again): Orchestrator.__init__, then start() runs
\* _sync_instance_status before any driver or request. `inst` is what the
\* lookup by label returned, `raised` says the lookup or the store raised
\* (logged at line 165; an empty ipv4 list raises too, at line 97, while an
\* answer without the ipv4 key reads as the address None), `configured` says
\* the daemon accepted set_proxy.
start_answers(inst, raised, configured) ==
  /\ events < MaxEvents
  /\ events' = events + 1
  /\ instance_creating' = FALSE
  /\ prov' = [r \in Routines |-> IdleRoutine]
  /\ reqs' = [r \in Requests |-> NoRequest]
  /\ pc1' = "idle" /\ sess1' = NoSession /\ proxy_calls1' = 0
  /\ pc2' = "idle" /\ sess2' = NoSession
  /\ pc3' = "idle" /\ sess3' = NoSession
  /\ pc4' = "idle" /\ destroy_id' = 0
  /\ running' = TRUE
  /\ drivers' = [d \in Drivers |-> "run"]
  /\ UNCHANGED <<settings, offline>>
  /\ resumed' = ByStatus(PIKPAK_TRANSFERRING)
  /\ raised \/ CloudAnswers
  /\ IF raised
       THEN UNCHANGED <<linodes, all_proxy>>
       ELSE /\ linodes' = sync_instance_status(linodes, inst, inst.ipv4)
            /\ all_proxy' = IF inst.status = "running" /\ inst.ipv4 # Null /\ configured
                              THEN proxy_url(inst.ipv4, settings_socks5_port,
                                             settings_socks5_username,
                                             settings_socks5_password)
                              ELSE all_proxy
  /\ UNCHANGED <<tasks, cloud, downloads>>

Start ==
  \E inst \in Lookups, raised \in BOOLEAN, configured \in BOOLEAN :
    start_answers(inst, raised, configured)

\* stop() without task.cancel(): a scan in progress goes on.
NotCancelled(pc) == pc

\* task.cancel() and `await task` (lines 68-73): CancelledError is raised at
\* the await the driver is suspended at; no `except Exception` catches it and
\* the scan's session is dropped without a commit.
Cancelled(pc) == "idle"

\* stop() (lines 64-76). The coroutine spawned by asyncio.create_task at line
\* 205 is not in self._tasks and is not cancelled.
stop ==
  /\ running
  /\ events < MaxEvents
  /\ events' = events + 1
  /\ running' = FALSE
  /\ drivers' = [d \in {} |-> "run"]
  /\ UNCHANGED settings
  /\ pc1' = Cancelled(pc1)
  /\ pc2' = Cancelled(pc2)
  /\ pc3' = Cancelled(pc3)
  /\ pc4' = Cancelled(pc4)
  /\ IF pc1' = "idle" THEN sess1' = NoSession /\ proxy_calls1' = 0
                      ELSE UNCHANGED <<sess1, proxy_calls1>>
  /\ sess2' = IF pc2' = "idle" THEN NoSession ELSE sess2
  /\ sess3' = IF pc3' = "idle" THEN NoSession ELSE sess3
  /\ destroy_id' = IF pc4' = "idle" THEN 0 ELSE destroy_id
  /\ UNCHANGED <<resumed, offline, tasks, linodes, cloud, daemon, routine, reqs>>

\* ------------------------------------------------------------------ time

\* More than 5 minutes pass: every completed_at is older than the idle
\* window. An asyncio.sleep(30) in progress ends first.
Pass5Minutes ==
  /\ \A r \in Routines : prov[r].pc # "sleep"
  /\ \E t \in DOMAIN tasks : tasks[t].completed_at = "fresh"
  /\ tasks' = [t \in DOMAIN tasks |->
                IF tasks[t].completed_at = "fresh"
                  THEN [tasks[t] EXCEPT !.completed_at = "old"] ELSE tasks[t]]
  /\ UNCHANGED <<events, engine, resumed, offline, linodes, cloud, daemon, routine, reqs, tick1, tick2, tick3, tick4>>

\* More than 30 minutes pass.
Pass30Minutes ==
  /\ \A r \in Routines : prov[r].pc # "sleep"
  /\ \/ \E t \in DOMAIN tasks : tasks[t].completed_at = "fresh"
     \/ \E id \in DOMAIN linodes : linodes[id].created_at = "fresh"
  /\ tasks' = [t \in DOMAIN tasks |->
                IF tasks[t].completed_at = "fresh"
                  THEN [tasks[t] EXCEPT !.completed_at = "old"] ELSE tasks[t]]
  /\ linodes' = [id \in DOMAIN linodes |-> [linodes[id] EXCEPT !.created_at = "old"]]
  /\ UNCHANGED <<events, engine, resumed, offline, cloud, daemon, routine, reqs, tick1, tick2, tick3, tick4>>

\* ------------------------------------------------------------------ spec

\* The application after its first start() over two collected tasks and no
\* instance, with complete settings.
Init ==
  /\ tasks = [t \in TaskIds |-> NewTask(1, t, IF t = 1 THEN MagnetUrl ELSE ShareUrl)]
  /\ linodes = [id \in {} |-> Null]
  /\ remote = {}
  /\ next_linode_id = 1
  /\ all_proxy = NoProxy
  /\ downloads = <<>>
  /\ instance_creating = FALSE
  /\ prov = [r \in Routines |-> IdleRoutine]
  /\ reqs = [r \in Requests |-> NoRequest]
  /\ pc1 = "idle" /\ sess1 = NoSession /\ proxy_calls1 = 0
  /\ pc2 = "idle" /\ sess2 = NoSession
  /\ pc3 = "idle" /\ sess3 = NoSession
  /\ pc4 = "idle" /\ destroy_id = 0
  /\ events = 0
  /\ running = TRUE
  /\ drivers = [d \in Drivers |-> "run"]
  /\ settings = [linode_token |-> TRUE, pikpak_credentials |-> TRUE]
  /\ offline = [t \in TaskIds |-> 0]
  /\ resumed = {}

Next ==
  \/ \E r \in Requests, t \in TaskIds, a \in {"confirm", "ignore"} : task_action_read(r, t, a)
  \/ \E r \in Requests : task_action_commit(r)
  \/ process_confirmed_tasks
  \/ process_confirmed_tasks_commit
  \/ process_confirmed_tasks_commit_raises
  \/ \E r \in Routines : create_swipe_instance_list(r)
  \/ \E r \in Routines : create_swipe_instance_post(r)
  \/ \E r \in Routines : create_swipe_instance_wait(r)
  \/ \E r \in Routines : create_swipe_instance_configure(r)
  \/ push_ready_transfers
  \/ push_ready_transfers_commit
  \/ push_ready_transfers_commit_raises
  \/ monitor_downloads
  \/ monitor_downloads_commit
  \/ monitor_downloads_commit_raises
  \/ check_and_cleanup
  \/ destroy_swipe_instance_lookup
  \/ destroy_swipe_instance_delete
  \/ emergency_destroy_all
  \/ Start
  \/ stop
  \/ RemoteBoot
  \/ RemoteAssignIp
  \/ RemoteVanish
  \/ DownloadEnds
  \/ DownloadRemoved
  \/ Pass5Minutes
  \/ Pass30Minutes

Spec == Init /\ [][Next]_vars

\* ------------------------------------------------------------------ incomplete settings

\* The application before start(), deployed without LINODE_TOKEN or without
\* PIKPAK_USERNAME/PIKPAK_PASSWORD (core/config.py lines 50-57: every one of
\* them is Optional with default None).
ConfigInit ==
  /\ tasks = [t \in TaskIds |-> NewTask(1, t, IF t = 1 THEN MagnetUrl ELSE ShareUrl)]
  /\ linodes = [id \in {} |-> Null]
  /\ remote = {}
  /\ next_linode_id = 1
  /\ all_proxy = NoProxy
  /\ downloads = <<>>
  /\ instance_creating = FALSE
  /\ prov = [r \in Routines |-> IdleRoutine]
  /\ reqs = [r \in Requests |-> NoRequest]
  /\ pc1 = "idle" /\ sess1 = NoSession /\ proxy_calls1 = 0
  /\ pc2 = "idle" /\ sess2 = NoSession
  /\ pc3 = "idle" /\ sess3 = NoSession
  /\ pc4 = "idle" /\ destroy_id = 0
  /\ events = 0
  /\ running = FALSE
  /\ drivers = [d \in {} |-> "run"]
  /\ settings \in {c \in [linode_token : BOOLEAN, pikpak_credentials : BOOLEAN] :
                     ~c.linode_token \/ ~c.pikpak_credentials}
  /\ offline = [t \in TaskIds |-> 0]
  /\ resumed = {}

\* The steps that can be taken with incomplete settings after the first
\* start() and one more event: no task gets past the drive, so the scans of
\* Tick-2 and Tick-3 find nothing.
ConfigNext ==
  \/ Start
  \/ stop
  \/ \E r \in Requests, t \in TaskIds, a \in {"confirm", "ignore"} : task_action_read(r, t, a)
  \/ \E r \in Requests : task_action_commit(r)
  \/ process_confirmed_tasks
  \/ process_confirmed_tasks_commit
  \/ \E r \in Routines : create_swipe_instance_list(r)
  \/ \E r \in Routines : create_swipe_instance_post(r)
  \/ \E r \in Routines : create_swipe_instance_wait(r)
  \/ \E r \in Routines : create_swipe_instance_configure(r)
  \/ check_and_cleanup
  \/ destroy_swipe_instance_lookup
  \/ destroy_swipe_instance_delete
  \/ emergency_destroy_all
  \/ RemoteBoot
  \/ RemoteAssignIp
  \/ Pass30Minutes

ConfigSpec == ConfigInit /\ [][ConfigNext]_vars

\* ------------------------------------------------------------------ collection

\* The application over an empty tasks table.
CreateInit ==
  /\ tasks = [t \in {} |-> Null]
  /\ linodes = [id \in {} |-> Null]
  /\ remote = {}
  /\ next_linode_id = 1
  /\ all_proxy = NoProxy
  /\ downloads = <<>>
  /\ instance_creating = FALSE
  /\ prov = [r \in Routines |-> IdleRoutine]
  /\ reqs = [r \in Requests |-> NoRequest]
  /\ pc1 = "idle" /\ sess1 = NoSession /\ proxy_calls1 = 0
  /\ pc2 = "idle" /\ sess2 = NoSession
  /\ pc3 = "idle" /\ sess3 = NoSession
  /\ pc4 = "idle" /\ destroy_id = 0
  /\ events = 0
  /\ running = TRUE
  /\ drivers = [d \in Drivers |-> "run"]
  /\ settings = [linode_token |-> TRUE, pikpak_credentials |-> TRUE]
  /\ offline = [t \in TaskIds |-> 0]
  /\ resumed = {}

\* Collectors create tasks and the operator ignores some, concurrently.
CreateNext ==
  \/ \E r \in Requests, data \in TaskData : create_task_select(r, data)
  \/ \E r \in Requests : create_task_insert(r)
  \/ \E r \in Requests, t \in DOMAIN tasks : task_action_read(r, t, "ignore")
  \/ \E r \in Requests : task_action_commit(r)

CreateSpec == CreateInit /\ [][CreateNext]_vars

\* ------------------------------------------------------------------ cleanup liveness

\* delete_instance answers 200 whenever the instance it names exists.
destroy_swipe_instance_delete_ok ==
  /\ destroy_swipe_instance_delete
  /\ destroy_id \in RemoteIds => destroy_id \notin {i.id : i \in remote'}

\* The program under one request for task 1, with no restart, no emergency
\* destroy and no instance lost outside the process, and a cloud whose delete
\* works.
LiveNext ==
  \/ \E a \in {"confirm", "ignore"} : task_action_read(1, 1, a)
  \/ task_action_commit(1)
  \/ process_confirmed_tasks
  \/ process_confirmed_tasks_commit
  \/ \E r \in Routines : create_swipe_instance_list(r)
  \/ \E r \in Routines : create_swipe_instance_post(r)
  \/ \E r \in Routines : create_swipe_instance_wait(r)
  \/ \E r \in Routines : create_swipe_instance_configure(r)
  \/ push_ready_transfers
  \/ push_ready_transfers_commit
  \/ monitor_downloads
  \/ monitor_downloads_commit
  \/ check_and_cleanup
  \/ destroy_swipe_instance_lookup
  \/ destroy_swipe_instance_delete_ok
  \/ RemoteBoot
  \/ RemoteAssignIp
  \/ DownloadEnds
  \/ Pass5Minutes
  \/ Pass30Minutes

\* The cleanup driver runs every 60 s, a lookup by label eventually answers,
\* time passes and a sleeping provisioning routine wakes up.
LiveFairness ==
  /\ WF_vars(check_and_cleanup)
  /\ SF_vars(destroy_swipe_instance_lookup /\ pc4' = "delete")
  /\ WF_vars(destroy_swipe_instance_delete_ok)
  /\ WF_vars(Pass5Minutes)
  /\ WF_vars(Pass30Minutes)
  /\ \A r \in Routines : WF_vars(create_swipe_instance_configure(r))

LiveSpec == Init /\ [][LiveNext]_vars /\ LiveFairness

\* ------------------------------------------------------------------ nominal run

\* The steps of the program when no external call fails: the cloud creates,
\* boots and deletes, the drive accepts and lists, the daemon accepts.
process_confirmed_tasks_ok ==
  /\ process_confirmed_tasks
  /\ drivers' = drivers
  /\ pc1' = "commit" => \A t \in DOMAIN sess1' : sess1'[t].obj.status = PIKPAK_TRANSFERRING

create_swipe_instance_list_ok(r) ==
  create_swipe_instance_list(r) /\ prov'[r].pc # "idle"

create_swipe_instance_post_ok(r) ==
  create_swipe_instance_post(r) /\ prov'[r].pc = "wait"

create_swipe_instance_wait_ok(r) ==
  create_swipe_instance_wait(r) /\ prov'[r].pc = "sleep"

create_swipe_instance_configure_ok(r) ==
  create_swipe_instance_configure(r) /\ all_proxy' # NoProxy

push_ready_transfers_ok ==
  /\ push_ready_transfers
  /\ \A t \in DOMAIN sess2' : sess2'[t].obj.status # ERROR

\* The scan in which the drive reports the file of every selected task ready.
push_ready_transfers_ready ==
  /\ push_ready_transfers_ok
  /\ \A t \in DOMAIN sess2' : sess2'[t].obj.status = DOWNLOADING

DownloadEnds_ok ==
  /\ DownloadEnds
  /\ \A g \in DOMAIN downloads' : downloads'[g].status # "error"

monitor_downloads_ok ==
  /\ monitor_downloads
  /\ \A t \in DOMAIN sess3' : sess3'[t].obj.status # ERROR

\* The scan in which tell_status answers for every gid of a finished task.
monitor_downloads_complete ==
  /\ monitor_downloads_ok
  /\ \E t \in DOMAIN sess3' : sess3'[t].obj.status = COMPLETE

destroy_swipe_instance_lookup_ok ==
  /\ destroy_swipe_instance_lookup
  /\ drivers' = drivers
  /\ remote # {} => pc4' = "delete"

check_and_cleanup_ok == check_and_cleanup_answers(FALSE)

destroy_swipe_instance_delete_cleared ==
  /\ destroy_swipe_instance_delete_ok
  /\ remote' # remote
  /\ all_proxy' = NoProxy

\* The routine polls every 10 s and sleeps 30 s once the instance runs, so
\* it has ended before a completion is 5 minutes old.
Pass5Minutes_ok ==
  /\ \A r \in Routines : prov[r].pc = "idle"
  /\ Pass5Minutes

Pass30Minutes_ok ==
  /\ \A r \in Routines : prov[r].pc = "idle"
  /\ Pass30Minutes

\* One confirm of the magnet task, then the drivers, the provisioning
\* routine, the cloud and the daemon, every call answering.
NominalNext ==
  \/ task_action_read(1, 1, "confirm")
  \/ task_action_commit(1)
  \/ process_confirmed_tasks_ok
  \/ process_confirmed_tasks_commit
  \/ \E r \in Routines : create_swipe_instance_list_ok(r)
  \/ \E r \in Routines : create_swipe_instance_post_ok(r)
  \/ \E r \in Routines : create_swipe_instance_wait_ok(r)
  \/ \E r \in Routines : create_swipe_instance_configure_ok(r)
  \/ push_ready_transfers_ok
  \/ push_ready_transfers_commit
  \/ monitor_downloads_ok
  \/ monitor_downloads_commit
  \/ check_and_cleanup_ok
  \/ destroy_swipe_instance_lookup_ok
  \/ destroy_swipe_instance_delete_cleared
  \/ RemoteBoot
  \/ RemoteAssignIp
  \/ DownloadEnds_ok
  \/ Pass5Minutes_ok
  \/ Pass30Minutes_ok

\* Every driver loop keeps running, the routine and the cloud make progress,
\* time passes; the drive eventually reports a file ready and the daemon
\* eventually answers for every gid.
NominalFairness ==
  /\ WF_vars(task_action_commit(1))
  /\ WF_vars(process_confirmed_tasks_ok)
  /\ WF_vars(process_confirmed_tasks_commit)
  /\ \A r \in Routines :
       /\ WF_vars(create_swipe_instance_list_ok(r))
       /\ WF_vars(create_swipe_instance_post_ok(r))
       /\ WF_vars(create_swipe_instance_wait_ok(r))
       /\ WF_vars(create_swipe_instance_configure_ok(r))
  /\ SF_vars(push_ready_transfers_ready)
  /\ WF_vars(push_ready_transfers_commit)
  /\ SF_vars(monitor_downloads_complete)
  /\ WF_vars(monitor_downloads_commit)
  /\ WF_vars(check_and_cleanup_ok)
  /\ WF_vars(destroy_swipe_instance_lookup_ok)
  /\ WF_vars(destroy_swipe_instance_delete_cleared)
  /\ WF_vars(RemoteBoot)
  /\ WF_vars(RemoteAssignIp)
  /\ WF_vars(DownloadEnds_ok)
  /\ WF_vars(Pass5Minutes_ok)
  /\ WF_vars(Pass30Minutes_ok)

NominalSpec == Init /\ [][NominalNext]_vars /\ NominalFairness

\* ------------------------------------------------------------------ claims

\* The transition table of the task state machine.
LegalTransitions ==
  {<<PENDING, CONFIRMED>>, <<PENDING, IGNORED>>,
   <<CONFIRMED, PIKPAK_TRANSFERRING>>, <<CONFIRMED, ERROR>>,
   <<PIKPAK_TRANSFERRING, DOWNLOADING>>, <<PIKPAK_TRANSFERRING, ERROR>>,
   <<DOWNLOADING, COMPLETE>>, <<DOWNLOADING, ERROR>>}

\* C1: every change of a persisted task's status is a transition of the
\* table, so the statuses a task takes form a prefix of a legal path.
C1_StatusPathLegal ==
  [][\A t \in DOMAIN tasks :
       tasks'[t].status # tasks[t].status
         => <<tasks[t].status, tasks'[t].status>> \in LegalTransitions]_vars

C3_OneRemoteInstance ==
  /\ Cardinality(remote) <= 1
  /\ Cardinality({r \in Routines : prov[r].pc # "idle"}) <= 1
  /\ \A r \in Routines : prov[r].pc = "post" => remote = {}

\* C3 witness: a second instance was created after the first was gone, and
\* it is the only one.
C3_SecondInstanceAlone ==
  /\ next_linode_id = 3
  /\ Cardinality(remote) = 1
  /\ instance_creating

CleanupArmed ==
  \/ Completed # {}
  \/ Cardinality(RowsIn({PROVISIONING, RUNNING})) = 1
  \/ pc4 = "delete"

C5_DownloadingHasGids ==
  \A t \in DOMAIN tasks :
    tasks[t].status = DOWNLOADING => get_aria2_gids(tasks[t].aria2_gids) # <<>>

\* C5 witness: a task is DOWNLOADING with two gids.
C5_DownloadingTwoGids ==
  \E t \in DOMAIN tasks :
    tasks[t].status = DOWNLOADING /\ Len(get_aria2_gids(tasks[t].aria2_gids)) = 2

\* C6: a PIKPAK_TRANSFERRING task has a pikpak_file_id, magnet or share.
C6_TransferringHasFileId ==
  \A t \in DOMAIN tasks :
    tasks[t].status = PIKPAK_TRANSFERRING => tasks[t].pikpak_file_id # Null

\* C6 witness: a magnet task and a share task are both PIKPAK_TRANSFERRING.
C6_BothKindsTransferring ==
  \E t, u \in DOMAIN tasks :
    /\ is_magnet_link(tasks[t].source_url) /\ tasks[t].status = PIKPAK_TRANSFERRING
    /\ ~is_magnet_link(tasks[u].source_url) /\ tasks[u].status = PIKPAK_TRANSFERRING

\* C7: when _destroy_swipe_instance returns, having found no instance or
\* after its delete call, the daemon's all-proxy is empty.
C7_DestroyLeavesNoProxy ==
  [][(/\ \/ pc4 = "destroy" /\ remote = {}
         \/ pc4 = "delete"
      /\ pc4' = "idle"
      /\ events' = events)
       => all_proxy' = NoProxy]_vars

\* status, ip_address and whether ready_at is set, per row.
Observed(rows) ==
  [id \in DOMAIN rows |-> <<rows[id].status, rows[id].ip_address, rows[id].ready_at>>]

\* What get_instance_by_label returns to a reconcile that does not raise.
ReconcileInputs ==
  IF remote = {} THEN {NoInstance} ELSE {i \in remote : i.ipv4 # Null}

TickStep ==
  \/ process_confirmed_tasks \/ process_confirmed_tasks_commit
  \/ push_ready_transfers \/ push_ready_transfers_commit
  \/ monitor_downloads \/ monitor_downloads_commit
  \/ check_and_cleanup \/ destroy_swipe_instance_lookup \/ destroy_swipe_instance_delete

\* No remote instance, no live local row, no provisioning routine.
NoLiveInstance ==
  /\ remote = {}
  /\ RowsIn({PROVISIONING, RUNNING, DESTROYING}) = {}
  /\ \A r \in Routines : prov[r].pc = "idle"

\* Every driver is at its entry (the cleanup driver possibly inside
\* _destroy_swipe_instance, before its lookup).
DriversAtEntry ==
  /\ pc1 = "idle" /\ pc2 = "idle" /\ pc3 = "idle"
  /\ pc4 \in {"idle", "destroy"}

\* No driver's session holds a write for its commit.
NoPendingWrite ==
  /\ \A t \in DOMAIN sess1 : sess1[t].dirty = {}
  /\ \A t \in DOMAIN sess2 : sess2[t].dirty = {}
  /\ \A t \in DOMAIN sess3 : sess3[t].dirty = {}

\* C9 (as stated): with zero CONFIRMED tasks and no live instance, a driver
\* step from its entry changes no task (at once or by a write it holds for
\* its commit), no row, no remote instance, no daemon option and starts no
\* provisioning routine.
C9_NoConfirmedTicksChangeNothing ==
  [][(ConfirmedTasks = {} /\ NoLiveInstance /\ DriversAtEntry /\ TickStep)
       => /\ UNCHANGED <<tasks, linodes, remote, all_proxy, instance_creating, prov>>
          /\ NoPendingWrite']_vars

\* No CONFIRMED, PIKPAK_TRANSFERRING or DOWNLOADING task, no live instance,
\* every driver at its entry.
Quiet ==
  /\ ActiveTasks = {}
  /\ NoLiveInstance
  /\ DriversAtEntry

\* C9 (amended): with no active task and no live instance, a driver step
\* changes no task, no row, no remote instance, nothing in the daemon, starts
\* no provisioning routine, and leaves the system as quiet.
C9_QuietTicksChangeNothing ==
  [][(Quiet /\ TickStep)
       => /\ UNCHANGED <<tasks, linodes, remote, all_proxy, downloads,
                         instance_creating, prov>>
          /\ Quiet']_vars

\* C9 witness: the cleanup driver ran into _destroy_swipe_instance in a quiet
\* state (a task completed long ago, the instance is already gone).
C9_QuietCleanupRan ==
  /\ Quiet
  /\ pc4 = "destroy"
  /\ Completed # {}

\* A Tick-1 scan is at its commit and holds task t as failed on an empty
\* share.
EmptyShareInScan(t) ==
  /\ pc1 = "commit"
  /\ t \in DOMAIN sess1
  /\ ~is_magnet_link(sess1[t].obj.source_url)
  /\ "error_message" \in sess1[t].dirty
  /\ sess1[t].obj.error_message = MsgShareEmpty

NoFileIdInScan(t) ==
  /\ pc1 = "commit"
  /\ t \in DOMAIN sess1
  /\ is_magnet_link(sess1[t].obj.source_url)
  /\ "error_message" \in sess1[t].dirty
  /\ sess1[t].obj.error_message = MsgNoFileId

\* C11: the scan in which offline_download returns no file_id for a magnet
\* task commits it as ERROR, writes neither PIKPAK_TRANSFERRING nor
\* pikpak_file_id for it, and has processed every other task it selected.
C11_NoFileIdErrorOthersProcessed ==
  [][\A t \in DOMAIN tasks :
       (NoFileIdInScan(t) /\ process_confirmed_tasks_commit)
         => /\ tasks'[t].status = ERROR
            /\ tasks'[t].pikpak_file_id = tasks[t].pikpak_file_id
            /\ "pikpak_file_id" \notin sess1[t].dirty
            /\ \A u \in DOMAIN sess1 :
                 /\ "status" \in sess1[u].dirty
                 /\ tasks'[u].status \in {PIKPAK_TRANSFERRING, ERROR}]_vars

\* C11 witness: one scan holds the magnet task as failed for a missing
\* file_id and the share task it selected with it as PIKPAK_TRANSFERRING.
C11_NoFileIdBesideTransfer ==
  /\ NoFileIdInScan(1)
  /\ sess1[1].obj.pikpak_file_id = Null
  /\ 2 \in DOMAIN sess1
  /\ sess1[2].obj.status = PIKPAK_TRANSFERRING

\* No task is active and an instance is live: it exists remotely and its
\* local row is RUNNING.
IdleWithLiveInstance ==
  /\ ActiveTasks = {}
  /\ \E i \in remote : i.id \in RowsIn({RUNNING})

\* C12: with no active task and a live instance, an invocation of the cleanup
\* tick whose latest completed_at is younger than 5 minutes returns with
\* instance, rows and daemon proxy unchanged; one whose latest completed_at is
\* older enters _destroy_swipe_instance, which marks the row of the instance
\* it finds DESTROYING and, when the delete answers 200, leaves no such
\* instance and its row DESTROYED.
C12_CleanupByIdleWindow ==
  [][/\ (IdleWithLiveInstance /\ LastCompleted = "fresh" /\ check_and_cleanup)
          => /\ pc4' = "idle"
             /\ UNCHANGED <<remote, linodes, all_proxy>>
     /\ (IdleWithLiveInstance /\ LastCompleted = "old" /\ check_and_cleanup)
          => pc4' = "destroy"
     /\ (destroy_swipe_instance_lookup /\ pc4' = "delete")
          => /\ destroy_id' \in RemoteIds
             /\ destroy_id' \in DOMAIN linodes => linodes'[destroy_id'].status = DESTROYING
     /\ (destroy_swipe_instance_delete /\ remote' # remote)
          => /\ destroy_id \notin {i.id : i \in remote'}
             /\ destroy_id \in DOMAIN linodes
                  => /\ linodes'[destroy_id].status = DESTROYED
                     /\ linodes'[destroy_id].destroyed_at # Null]_vars

\* C12 witness: after the one confirmed task completed and the window
\* passed, the cleanup tick has destroyed the instance.
C12_IdleInstanceDestroyed ==
  /\ events = 1
  /\ LastCompleted = "old"
  /\ remote = {}
  /\ RowsIn({DESTROYED}) # {}
  /\ all_proxy = NoProxy
  /\ pc4 = "idle"

\* Provisioning timed out and the stuck instance is still there: its row is
\* ZOMBIE without an address, the instance is not running, the guard is
\* clear, CONFIRMED tasks wait and Tick-1 is at its entry.
StuckAfterTimeout ==
  /\ \E i \in remote :
       /\ i.status # "running"
       /\ i.id \in RowsIn({ZOMBIE})
       /\ linodes[i.id].ip_address = Null
  /\ ConfirmedTasks # {}
  /\ ~instance_creating
  /\ IdleRoutines = Routines
  /\ pc1 = "idle"

C14_RewriteBeforeListing ==
  [][push_ready_transfers =>
       \A t \in DOMAIN sess2' :
         LET o == sess2'[t]
             stored == tasks[t].pikpak_file_id
         IN /\ o.listed # Null
                 => /\ o.listed = o.obj.pikpak_file_id
                    /\ o.listed \in ActualIds(tasks[t])
            /\ o.obj.pikpak_file_id # stored => o.listed = o.obj.pikpak_file_id
            /\ o.listed = Null
                 => /\ o.obj.pikpak_file_id = stored
                    /\ o.dirty = {}]_vars

\* C14 witness: a scan listed a share task with "post-99" while the row
\* still stores "pre-77".
C14_ListedWithRestoredId ==
  /\ pc2 = "commit"
  /\ \E t \in DOMAIN sess2 :
       /\ tasks[t].pikpak_file_id = "pre-77"
       /\ sess2[t].listed = "post-99"
       /\ sess2[t].obj.pikpak_file_id = "post-99"

ConfirmedEventuallyComplete ==
  (tasks[1].status = CONFIRMED /\ NoLiveInstance) ~> (tasks[1].status = COMPLETE)

\* C17 part: whenever a download is enqueued, all-proxy is set.
ProxySetBeforeEnqueue ==
  [][Len(downloads') > Len(downloads) => all_proxy # NoProxy]_vars

\* C17 part: after the completion the proxy is cleared, the instance is gone
\* and its row is DESTROYED.
CompleteEventuallyDestroyed ==
  (tasks[1].status = COMPLETE)
    ~> (all_proxy = NoProxy /\ remote = {} /\ RowsIn({DESTROYED}) # {})

\* C17: under fair scheduling and with no external call failing, a CONFIRMED
\* magnet task starting with no live instance eventually becomes COMPLETE;
\* the daemon's proxy is set before any download is enqueued and is cleared
\* afterwards, and the instance's row eventually becomes DESTROYED.
C17_NominalRun ==
  /\ ConfirmedEventuallyComplete
  /\ ProxySetBeforeEnqueue
  /\ CompleteEventuallyDestroyed

\* C18: a confirm/ignore request persists its status only onto a task that
\* is PENDING at that moment, so of two concurrent requests on one PENDING
\* task only one takes effect and none overwrites a status written since.
C18_ActionPersistsOnlyOnPending ==
  [][\A r \in Requests :
       task_action_commit(r) => tasks[reqs[r].task].status = PENDING]_vars

\* The provisioning routines in flight.
InFlight == {r \in Routines : prov[r].pc # "idle"}

\* C19: Tick-1 sets the guard only while it is false and starts exactly one
\* routine with it; at most one routine is in flight, the guard is true
\* exactly while one is, and it is false after a routine ends, whatever the
\* exit (success, timeout, exception, end of the process).
C19_GuardFollowsRoutine ==
  /\ [](Cardinality(InFlight) <= 1 /\ (instance_creating <=> InFlight # {}))
  /\ [][/\ (instance_creating' /\ ~instance_creating)
             => /\ process_confirmed_tasks
                /\ InFlight = {} /\ Cardinality(InFlight') = 1
        /\ \A r \in Routines :
             (r \in InFlight /\ r \notin InFlight') => ~instance_creating']_vars

\* A routine has configured the proxy with its own credentials and ended.
C19_RoutineEndedGuardClear ==
  /\ InFlight = {}
  /\ ~instance_creating
  /\ \E id \in DOMAIN linodes :
       /\ linodes[id].status = RUNNING
       /\ all_proxy = proxy_url(linodes[id].ip_address, default_socks5_port,
                                default_socks5_username, default_socks5_password)

\* C20 part: a Tick-1 scan that finds no instance returns at once: it holds
\* no task and has changed none.
NoInstanceScanReturns ==
  [][(process_confirmed_tasks /\ remote = {})
       => (pc1' = "idle" /\ sess1' = NoSession /\ tasks' = tasks)]_vars

\* C20: a Tick-1 scan calls the drive for its CONFIRMED tasks only while a
\* local row is RUNNING, and a scan that finds no instance returns without
\* changing a task and without waiting for the provisioning routine.
C20_TransferOnlyWithRunningRow ==
  /\ [][(process_confirmed_tasks /\ pc1' = "commit") => RowsIn({RUNNING}) # {}]_vars
  /\ NoInstanceScanReturns

\* What a Tick-3 scan whose tell_status raises for the gids `thrown` does to
\* task t: ERROR iff an answering gid reports error, COMPLETE with
\* completed_at iff every gid answers complete, otherwise nothing.
ScanVerdict(t, thrown) ==
  LET gids == get_aria2_gids(tasks[t].aria2_gids)
      o == sess3'[t]
      err == \E i \in DOMAIN gids :
               gids[i] \notin thrown /\ downloads[gids[i]].status = "error"
      done == \A i \in DOMAIN gids :
                gids[i] \notin thrown /\ downloads[gids[i]].status = "complete"
  IN gids # <<>> =>
       /\ (o.obj.status = ERROR) <=> err
       /\ (o.obj.status = COMPLETE) <=> done
       /\ o.obj.status = COMPLETE
            => o.obj.completed_at # Null /\ {"status", "completed_at"} \subseteq o.dirty
       /\ o.obj.status = ERROR => "status" \in o.dirty
       /\ (~err /\ ~done) => o = Loaded(tasks[t])
       /\ (\A i \in DOMAIN gids : gids[i] \in thrown) => o = Loaded(tasks[t])

\* A row with its handle list emptied, stored as NULL or as "[]".
Handleless(row) ==
  {[row EXCEPT !.status = DOWNLOADING, !.aria2_gids = [null |-> TRUE, list |-> <<>>]],
   [row EXCEPT !.status = DOWNLOADING, !.aria2_gids = [null |-> FALSE, list |-> <<>>]]}

C22_DeleteOnlyWhenIdle ==
  [][(destroy_swipe_instance_delete /\ remote' # remote) => ActiveTasks = {}]_vars

\* The live rows older than 30 minutes.
OldLiveRows == {id \in RowsIn({PROVISIONING, RUNNING}) : linodes[id].created_at = "old"}

C24_TransientFailureKeepsStatus ==
  [][/\ process_confirmed_tasks_commit
          => \A t \in DOMAIN sess1 :
               sess1[t].obj.error_message = MsgDriveError
                 => tasks'[t].status = tasks[t].status
     /\ push_ready_transfers_commit
          => \A t \in DOMAIN sess2 :
               sess2[t].obj.error_message \in {MsgDriveError, MsgAddUriFailed}
                 => tasks'[t].status = tasks[t].status]_vars

LiveRunningRows ==
  {id \in RowsIn({RUNNING}) : \E i \in remote : i.id = id /\ i.status = "running"}

\* C26: a Tick-1 scan that finds CONFIRMED tasks and a live instance calls
\* set_proxy with the URL of the instance's row before it transfers, whether
\* the row was inserted by the provisioning routine or by the startup
\* reconcile; a call the daemon accepts leaves all-proxy equal to that URL.
C26_Tick1ReappliesProxy ==
  [][(process_confirmed_tasks /\ pc1' = "commit")
       => \A id \in LiveRunningRows :
            /\ proxy_calls1' = 1
            /\ all_proxy' \in {all_proxy,
                               proxy_url(linodes[id].ip_address, linodes[id].socks5_port,
                                         linodes[id].socks5_username,
                                         linodes[id].socks5_password)}]_vars

\* C27: a destroy that finds the instance marks its row DESTROYING and, when
\* the remote delete succeeds, DESTROYED with destroyed_at set and
\* total_minutes computed from ready_at; a destroy called when the instance
\* is gone changes no row, no task, no remote instance.
C27_DestroyIdempotent ==
  [][/\ (destroy_swipe_instance_lookup /\ pc4' = "delete" /\ destroy_id' \in DOMAIN linodes)
          => linodes'[destroy_id'].status = DESTROYING
     /\ (destroy_swipe_instance_delete /\ remote' # remote /\ destroy_id \in DOMAIN linodes)
          => /\ linodes'[destroy_id].status = DESTROYED
             /\ linodes'[destroy_id].destroyed_at # Null
             /\ linodes[destroy_id].ready_at # Null
                  => linodes'[destroy_id].total_minutes = "now - ready_at"
             /\ \A id \in DOMAIN linodes \ {destroy_id} : linodes'[id] = linodes[id]
     /\ (destroy_swipe_instance_lookup /\ remote = {})
          => /\ pc4' = "idle"
             /\ UNCHANGED <<linodes, tasks, remote, all_proxy>>]_vars

\* After a successful destroy of a row that had been ready, the cleanup tick
\* has entered _destroy_swipe_instance again.
C27_DestroyCalledAgain ==
  /\ pc4 = "destroy"
  /\ remote = {}
  /\ \E id \in RowsIn({DESTROYED}) :
       /\ linodes[id].destroyed_at # Null
       /\ linodes[id].total_minutes = "now - ready_at"

RECURSIVE HandlesOf(_, _)
HandlesOf(t, n) ==
  IF n = 0 THEN <<>>
  ELSE IF downloads[n].task = t THEN Append(HandlesOf(t, n - 1), n)
  ELSE HandlesOf(t, n - 1)

\* C29: the commit of a Tick-2 scan stores, for every task of the scan, all
\* the handles add_uri returned for it, in call order, also when a later
\* add_uri of the scan raised: no download lacks a record.
C29_HandlesPersisted ==
  [][push_ready_transfers_commit
       => \A t \in DOMAIN sess2 :
            HandlesOf(t, Len(downloads)) # <<>>
              => get_aria2_gids(tasks'[t].aria2_gids) = HandlesOf(t, Len(downloads))]_vars

\* C30: a Tick-2 scan in which is_file_ready answers false for a task holds
\* the task as loaded and adds no download for it; the commit then writes
\* nothing to it, and every scan selects all PIKPAK_TRANSFERRING tasks, so
\* the task is probed again.
C30_NotReadyUntouched ==
  [][/\ \A ready \in SUBSET ByStatus(PIKPAK_TRANSFERRING) :
          push_ready_transfers_answers(ready)
            => /\ DOMAIN sess2' = ByStatus(PIKPAK_TRANSFERRING)
               /\ \A t \in ByStatus(PIKPAK_TRANSFERRING) \ ready :
                    /\ sess2'[t] = Loaded(tasks[t])
                    /\ \A g \in (Len(downloads) + 1)..Len(downloads') :
                         downloads'[g].task # t
     /\ push_ready_transfers_commit
          => \A t \in DOMAIN sess2 :
               sess2[t] = Loaded(sess2[t].obj) => tasks'[t] = tasks[t]]_vars

\* A scan is at its commit holding a task with a file id that it found not
\* ready, the daemon without a download.
C30_FoundNotReady ==
  /\ pc2 = "commit"
  /\ downloads = <<>>
  /\ \E t \in DOMAIN sess2 :
       /\ tasks[t].status = PIKPAK_TRANSFERRING
       /\ tasks[t].pikpak_file_id # Null
       /\ sess2[t] = Loaded(tasks[t])

\* C31: while the engine runs every driver is alive, whatever exceptions its
\* tick bodies raised, and a driver that caught an exception and is between two
\* ticks can invoke its tick again.
C31_DriversSurviveExceptions ==
  running =>
    /\ \A d \in Drivers : Alive(d)
    /\ (drivers[1] = "caught" /\ pc1 = "idle") => ENABLED process_confirmed_tasks
    /\ (drivers[2] = "caught" /\ pc2 = "idle" /\ ByStatus(PIKPAK_TRANSFERRING) # {})
         => ENABLED push_ready_transfers
    /\ (drivers[3] = "caught" /\ pc3 = "idle" /\ ByStatus(DOWNLOADING) # {})
         => ENABLED monitor_downloads
    /\ (drivers[4] = "caught" /\ pc4 = "idle") => ENABLED check_and_cleanup

\* The monitoring driver caught an exception of an earlier tick and is inside
\* a later one.
C31_TickAfterException ==
  /\ running
  /\ drivers[3] = "caught"
  /\ pc3 = "commit"

\* C32: once stop() has returned the driver list is empty, no driver is inside
\* a tick and none can begin or finish one; a provisioning routine that was in
\* flight goes on, and when no routine is left the guard is clear.
C32_StopEndsDrivers ==
  ~running =>
    /\ DOMAIN drivers = {}
    /\ pc1 = "idle" /\ pc2 = "idle" /\ pc3 = "idle" /\ pc4 = "idle"
    /\ ~ENABLED process_confirmed_tasks
    /\ ~ENABLED push_ready_transfers
    /\ ~ENABLED monitor_downloads
    /\ ~ENABLED check_and_cleanup
    /\ (\A r \in Routines : prov[r].pc = "idle") => ~instance_creating

\* The engine is stopped and a provisioning routine is still in flight.
C32_StoppedWithRoutineInFlight ==
  /\ ~running
  /\ instance_creating
  /\ \E r \in Routines : prov[r].pc # "idle"

\* C33: with LINODE_TOKEN or the drive credentials missing the engine does not
\* start: _running stays false, no driver exists, no tick runs and no task or
\* instance row is written by the engine.
C33_StartRefusesIncompleteSettings ==
  (~settings.linode_token \/ ~settings.pikpak_credentials) =>
    /\ ~running
    /\ DOMAIN drivers = {}
    /\ pc1 = "idle" /\ pc4 = "idle"
    /\ linodes = [id \in {} |-> Null]
    /\ \A t \in DOMAIN tasks : tasks[t].status \in {PENDING, CONFIRMED, IGNORED}

\* C34: no two task rows share (telegram_chat_id, telegram_msg_id); an insert
\* for a pair a row already holds adds no row, leaves every row as it was and
\* is answered 409, and so is a creation whose select finds the row.
C34_UniqueTelegramMessage ==
  /\ [](\A t, u \in DOMAIN tasks :
          (/\ tasks[t].telegram_chat_id = tasks[u].telegram_chat_id
           /\ tasks[t].telegram_msg_id = tasks[u].telegram_msg_id) => t = u)
  /\ [][\A r \in Requests :
          create_task_insert(r) =>
            IF \E t \in DOMAIN tasks :
                 /\ tasks[t].telegram_chat_id = reqs[r].data.telegram_chat_id
                 /\ tasks[t].telegram_msg_id = reqs[r].data.telegram_msg_id
              THEN /\ tasks' = tasks
                   /\ CreateAnswer(Created(tasks, reqs[r].data)) = 409
              ELSE /\ DOMAIN tasks' # DOMAIN tasks
                   /\ \A t \in DOMAIN tasks : tasks'[t] = tasks[t]
                   /\ CreateAnswer(Created(tasks, reqs[r].data)) = 200]_vars

\* A creation passed its select and is about to insert a pair that a row
\* already holds, under another source_url or inserted meanwhile.
C34_DuplicateAtInsert ==
  \E r \in Requests :
    /\ reqs[r].action = "create"
    /\ \E t \in DOMAIN tasks :
         /\ tasks[t].telegram_chat_id = reqs[r].data.telegram_chat_id
         /\ tasks[t].telegram_msg_id = reqs[r].data.telegram_msg_id
         /\ tasks[t].status = IGNORED

\* The address an all-proxy value names.
ProxyHost(url) == url[4]

\* C35: a Tick-2 scan adds a download to the daemon only while all-proxy is
\* set and names the address of the running remote instance.
C35_EnqueueOnlyThroughLiveProxy ==
  [][(push_ready_transfers /\ Len(downloads') > Len(downloads))
       => /\ all_proxy # NoProxy
          /\ \E i \in remote : /\ i.status = "running"
                                /\ i.ipv4 # Null
                                /\ ProxyHost(all_proxy) = i.ipv4]_vars

C38_RunningInstanceHasRunningRow ==
  (/\ pc1 = "commit"
   /\ pc4 = "idle"
   /\ \A r \in Routines : prov[r].pc = "idle")
    => \A i \in remote :
         (i.status = "running" /\ i.ipv4 # Null)
           => (i.id \in DOMAIN linodes /\ linodes[i.id].status = RUNNING)

\* The daemon statuses after which a download does not change any more.
TerminalStatuses == {"complete", "error", "removed"}

\* C39: for a DOWNLOADING task whose handles all report a terminal status, a
\* Tick-3 scan in which every tell_status answers takes the task out of
\* DOWNLOADING. (The statuses being permanent, every later scan sees the same
\* answers, so a scan that leaves the task leaves it for ever.)
C39_TerminalHandlesLeaveDownloading ==
  \A t \in ByStatus(DOWNLOADING) :
    (/\ Alive(3) /\ pc3 = "idle"
     /\ get_aria2_gids(tasks[t].aria2_gids) # <<>>
     /\ \A i \in DOMAIN get_aria2_gids(tasks[t].aria2_gids) :
          /\ get_aria2_gids(tasks[t].aria2_gids)[i] \in DOMAIN downloads
          /\ downloads[get_aria2_gids(tasks[t].aria2_gids)[i]].status \in TerminalStatuses)
      => ENABLED (monitor_downloads_answers({}) /\ sess3'[t].obj.status # DOWNLOADING)

\* C40: the drive accepts at most one offline task or share save per task.
C40_SubmittedAtMostOnce == \A t \in DOMAIN offline : offline[t] <= 1

====
